---- MODULE Spec2Model ----
(***************************************************************************)
(* Model of the bootstrap tooling of the developer-tooling monorepo:       *)
(*   tooling/bootstrap/gather_docs.py       the documentation gatherer     *)
(*   tooling/bootstrap/init.py              the platform bootstrapper      *)
(*   tooling/bootstrap/python_bootstrap.py  the uv / venv bootstrapper     *)
(*                                                                         *)
(* Text is a sequence of one-character strings, so that the regular        *)
(* expressions of gather_docs.py are matched character by character.       *)
(***************************************************************************)
EXTENDS Integers, Sequences, FiniteSets, TLC

VARIABLES
    walk,       \* gather_docs: the entries root_dir.rglob('*') yields, in order
    idx,        \* gather_docs: position of the for loop in walk
    docs,       \* gather_docs: the list of FileDoc built so far
    printed,    \* gather_docs: what has been printed to stdout, in order
    output,     \* gather_docs: main's formatted_output (None before it is built)
    pc,         \* gather_docs: "gather", "done" or "crashed" ("idle": not run)
    script,     \* bootstrap: the script the user runs, "init" or "python_bootstrap"
    system,     \* bootstrap: platform.system().lower()
    uvOnPath,   \* bootstrap: shutil.which("uv") finds uv
    uvWorks,    \* bootstrap: "uv --version" exits with status 0
    venvExists, \* bootstrap: the directory repo_root / "monorepo" exists
    activateExists, \* bootstrap: the activation script of the venv exists
    reqExists,  \* bootstrap: repo_root / "requirements.txt" exists
    ipc,        \* init.py: where its main stands
    bpc,        \* python_bootstrap.py: where its main stands
    initLog,    \* init.py: the messages logged, in order
    pbLog,      \* python_bootstrap.py: the messages logged, in order
    initExit,   \* init.py: exit status, -1 while it runs
    pbExit,     \* python_bootstrap.py: exit status, -1 while it runs
    ran,        \* bootstrap: the external commands run in this run, in order
    steps,      \* bootstrap: the setup functions entered in this run, in order
    run,        \* bootstrap: which run of the script this is, from 1
    prevExit,   \* bootstrap: exit status of the run before, -1 in the first
    prevRan     \* bootstrap: the external commands the run before ran

docVars == <<walk, idx, docs, printed, output, pc>>

envVars == <<system, uvOnPath, uvWorks, venvExists, activateExists, reqExists>>

bootVars == <<script, system, uvOnPath, uvWorks, venvExists, activateExists,
              reqExists, ipc, bpc, initLog, pbLog, initExit, pbExit, ran,
              steps, run, prevExit, prevRan>>

vars == <<walk, idx, docs, printed, output, pc, script, system, uvOnPath,
          uvWorks, venvExists, activateExists, reqExists, ipc, bpc, initLog,
          pbLog, initExit, pbExit, ran, steps, run, prevExit, prevRan>>

----------------------------------------------------------------------------
(* Bounds of the model.                                                    *)

\* longest content, in pieces, of the delimiter family of file contents
MaxDelimPieces == 4
\* longest description, in pieces, of the annotation family of file contents
MaxAnnotPieces == 5
\* most entries the walker yields in one scan
MaxFiles == 3
\* most runs of a bootstrap script in a row
MaxRuns == 2

----------------------------------------------------------------------------
(* Text helpers.                                                           *)

\* Python's None, for an Optional[str]
None == <<"None">>

\* Python's None, for an Optional[FileDoc]
NoDoc == [none |-> TRUE]

NL == "\n"
DQ == "\""
SQ == "'"

\* the characters str.strip() and the regex class \s remove
Whitespace == {" ", NL}

RECURSIVE Concat(_)
\* "".join(ss)
Concat(ss) == IF ss = <<>> THEN <<>> ELSE Head(ss) \o Concat(Tail(ss))

RECURSIVE Join(_, _)
\* sep.join(ss)
Join(sep, ss) ==
    IF ss = <<>> THEN <<>>
    ELSE IF Len(ss) = 1 THEN Head(ss)
    ELSE Head(ss) \o sep \o Join(sep, Tail(ss))

\* lit occurs in s at position i
IsAt(s, lit, i) ==
    /\ i >= 1
    /\ i + Len(lit) - 1 <= Len(s)
    /\ SubSeq(s, i, i + Len(lit) - 1) = lit

RECURSIVE FindFrom(_, _, _)
\* the first position >= i at which lit occurs in s, 0 when there is none
FindFrom(s, lit, i) ==
    IF i + Len(lit) - 1 > Len(s) THEN 0
    ELSE IF IsAt(s, lit, i) THEN i
    ELSE FindFrom(s, lit, i + 1)

RECURSIVE SkipWs(_, _)
\* the regex \s*, greedy: the first position >= i that holds no whitespace
SkipWs(s, i) ==
    IF i <= Len(s) /\ s[i] \in Whitespace THEN SkipWs(s, i + 1) ELSE i

RECURSIVE LStrip(_)
LStrip(s) == IF s # <<>> /\ Head(s) \in Whitespace THEN LStrip(Tail(s)) ELSE s

RECURSIVE RStrip(_)
RStrip(s) ==
    IF s # <<>> /\ s[Len(s)] \in Whitespace
    THEN RStrip(SubSeq(s, 1, Len(s) - 1)) ELSE s

\* str.strip()
Strip(s) == RStrip(LStrip(s))

\* "-" * n
RECURSIVE Dashes(_)
Dashes(n) == IF n = 0 THEN <<>> ELSE <<"-">> \o Dashes(n - 1)

----------------------------------------------------------------------------
(* gather_docs.py: DocGatherer.extract_doc_comment                          *)

\* doc_patterns with the C-style pattern moved to the front of the list
doc_patterns_c_first ==
    << [open |-> <<"/", "*", "*">>,   close |-> <<"*", "/">>,   ws |-> FALSE],
       [open |-> <<DQ, DQ, DQ>>,      close |-> <<DQ, DQ, DQ>>, ws |-> FALSE],
       [open |-> <<"<", "#">>,        close |-> <<"#", ">">>,   ws |-> FALSE],
       [open |-> <<SQ, SQ, SQ>>,      close |-> <<SQ, SQ, SQ>>, ws |-> TRUE] >>

\* the four delimiter patterns, in the order of the doc_patterns list;
\* ws says that the pattern has \s* after its opening delimiter
doc_patterns ==
    << [open |-> <<DQ, DQ, DQ>>,      close |-> <<DQ, DQ, DQ>>, ws |-> FALSE],
       [open |-> <<"/", "*", "*">>,   close |-> <<"*", "/">>,   ws |-> FALSE],
       [open |-> <<"<", "#">>,        close |-> <<"#", ">">>,   ws |-> FALSE],
       [open |-> <<SQ, SQ, SQ>>,      close |-> <<SQ, SQ, SQ>>, ws |-> TRUE] >>

NoMatch == [found |-> FALSE, group |-> <<>>]

RECURSIVE SearchFrom(_, _, _)
\* re.search(pattern, content, re.DOTALL) tried from start position i on:
\* the leftmost opening delimiter after which the closing delimiter occurs,
\* and the nearest such closing delimiter (.*? is lazy). \s* is greedy; giving
\* whitespace back cannot make a failed match succeed, since no closing
\* delimiter starts inside whitespace.
SearchFrom(content, p, i) ==
    LET o == FindFrom(content, p.open, i) IN
    IF o = 0 THEN NoMatch
    ELSE LET g == IF p.ws THEN SkipWs(content, o + Len(p.open))
                  ELSE o + Len(p.open)
             c == FindFrom(content, p.close, g)
         IN IF c = 0 THEN SearchFrom(content, p, o + 1)
            ELSE [found |-> TRUE, group |-> SubSeq(content, g, c - 1)]

\* re.search(pattern, content, re.DOTALL)
Search(content, p) == SearchFrom(content, p, 1)

CreatedWithLit ==
    <<"C", "r", "e", "a", "t", "e", "d", " ", "w", "i", "t", "h", " ">>

RECURSIVE FindCloseParen(_, _)
\* (.*?)\) from position k: the first ")" with no line break before it
FindCloseParen(s, k) ==
    IF k > Len(s) \/ s[k] = NL THEN 0
    ELSE IF s[k] = ")" THEN k
    ELSE FindCloseParen(s, k + 1)

RECURSIVE MatchAgent(_, _, _)
\* (.*?)\((.*?)\) with the first group starting at g, its "(" tried at j on:
\* "." does not match a line break (no re.DOTALL on this search)
MatchAgent(s, g, j) ==
    IF j > Len(s) \/ s[j] = NL THEN [found |-> FALSE]
    ELSE IF s[j] = "("
         THEN LET k == FindCloseParen(s, j + 1) IN
              IF k # 0
              THEN [found |-> TRUE,
                    agent |-> SubSeq(s, g, j - 1),
                    date |-> SubSeq(s, j + 1, k - 1)]
              ELSE MatchAgent(s, g, j + 1)
         ELSE MatchAgent(s, g, j + 1)

RECURSIVE CreatedSearchFrom(_, _)
\* re.search(r'Created with (.*?)\((.*?)\)', doc_text), tried from i on
CreatedSearchFrom(s, i) ==
    LET o == FindFrom(s, CreatedWithLit, i) IN
    IF o = 0 THEN [found |-> FALSE]
    ELSE LET m == MatchAgent(s, o + Len(CreatedWithLit), o + Len(CreatedWithLit))
         IN IF m.found THEN m ELSE CreatedSearchFrom(s, o + 1)

CreatedSearch(s) == CreatedSearchFrom(s, 1)

\* CreationInfo with an empty date turned into None
CreationInfoEmptyDateNone(doc_text) ==
    LET created_match == CreatedSearch(doc_text) IN
    IF created_match.found
    THEN [created_with |-> Strip(created_match.agent),
          created_date |-> IF Strip(created_match.date) = <<>> THEN None
                           ELSE Strip(created_match.date)]
    ELSE [created_with |-> None, created_date |-> None]

\* the creation info of a description: lines 72-77
CreationInfo(doc_text) ==
    LET created_match == CreatedSearch(doc_text) IN
    IF created_match.found
    THEN [created_with |-> Strip(created_match.agent),
          created_date |-> Strip(created_match.date)]
    ELSE [created_with |-> None, created_date |-> None]

\* FileDoc(path=..., description=..., created_with=..., created_date=...)
FileDoc(path, doc_text) ==
    LET info == CreationInfo(doc_text) IN
    [path |-> path,
     description |-> doc_text,
     created_with |-> info.created_with,
     created_date |-> info.created_date]

RECURSIVE FirstPattern(_, _, _)
\* the for loop over doc_patterns from pattern n on: the first pattern that
\* matches builds the FileDoc, None (NoDoc) when no pattern matches
FirstPattern(path, content, n) ==
    IF n > Len(doc_patterns) THEN NoDoc
    ELSE LET match == Search(content, doc_patterns[n]) IN
         IF match.found THEN FileDoc(path, Strip(match.group))
         ELSE FirstPattern(path, content, n + 1)

\* the message of the except branch: print(f"Error processing {file_path}: {e}")
ErrorMessage(e) == [kind |-> "error", path |-> e.path, text |-> <<e.read>>]

\* extract_doc_comment without its except branch: a read error leaves it
extract_doc_comment_unhandled(e) ==
    IF e.read # "ok"
    THEN [doc |-> NoDoc, prints |-> <<>>, raised |-> TRUE]
    ELSE [doc |-> FirstPattern(e.path, e.content, 1),
          prints |-> <<>>, raised |-> FALSE]

\* extract_doc_comment(file_path): the FileDoc or None it returns, the lines
\* it prints, and whether an exception leaves it. read_text() raises for a
\* file that cannot be read ("denied") or decoded ("undecodable"); the
\* except Exception branch prints and returns None.
extract_doc_comment(e) ==
    IF e.read # "ok"
    THEN [doc |-> NoDoc, prints |-> <<ErrorMessage(e)>>, raised |-> FALSE]
    ELSE [doc |-> FirstPattern(e.path, e.content, 1),
          prints |-> <<>>, raised |-> FALSE]

----------------------------------------------------------------------------
(* gather_docs.py: DocGatherer.gather_docs, format_output and main          *)

RECURSIVE LastIndexOf(_, _, _)
\* the last position <= i of character ch in s, 0 when there is none
LastIndexOf(s, ch, i) ==
    IF i = 0 THEN 0 ELSE IF s[i] = ch THEN i ELSE LastIndexOf(s, ch, i - 1)

\* Path.name: what follows the last "/"
PathName(path) == SubSeq(path, LastIndexOf(path, "/", Len(path)) + 1, Len(path))

\* Path.suffix: the name from its last "." on, empty when the name has no
\* "." past its first character or ends with it
suffix(path) ==
    LET name == PathName(path)
        dot == LastIndexOf(name, ".", Len(name))
    IN IF dot <= 1 \/ dot = Len(name) THEN <<>>
       ELSE SubSeq(name, dot, Len(name))

\* ['.py', '.sh', '.ps1']
DocSuffixes == { <<".", "p", "y">>, <<".", "s", "h">>, <<".", "p", "s", "1">> }

\* Path.is_file(): False for a directory and for an entry whose stat fails
\* with an ignored error (ENOENT, a broken link: "gone"); any other stat
\* error (EACCES under a directory that may be listed but not searched:
\* "denied") is raised to the caller
is_file(e) ==
    IF e.stat = "denied" THEN [raised |-> TRUE, value |-> FALSE]
    ELSE IF e.stat = "gone" THEN [raised |-> FALSE, value |-> FALSE]
    ELSE [raised |-> FALSE, value |-> e.kind = "file"]

\* docs.insert(0, doc)
PrependDoc(ds, doc) == <<doc>> \o ds

\* docs.append(doc)
AppendDoc(ds, doc) == Append(ds, doc)

\* one iteration of the for loop of gather_docs over the walker's entries;
\* an exception that leaves is_file or extract_doc_comment leaves gather_docs
\* and main too: neither has a handler
GatherVisit ==
    /\ pc = "gather"
    /\ idx <= Len(walk)
    /\ LET file_path == walk[idx]
           f == is_file(file_path)
       IN IF f.raised
          THEN /\ pc' = "crashed"
               /\ UNCHANGED <<idx, docs, printed>>
          ELSE IF f.value /\ suffix(file_path.path) \in DocSuffixes
          THEN LET r == extract_doc_comment(file_path) IN
               IF r.raised
               THEN /\ pc' = "crashed"
                    /\ UNCHANGED <<idx, docs, printed>>
               ELSE /\ printed' = printed \o r.prints
                    /\ docs' = IF r.doc # NoDoc THEN AppendDoc(docs, r.doc)
                               ELSE docs
                    /\ idx' = idx + 1
                    /\ pc' = pc
          ELSE /\ idx' = idx + 1
               /\ UNCHANGED <<docs, printed, pc>>
    /\ UNCHANGED <<walk, output>>
    /\ UNCHANGED bootVars

\* self.project_context and the section header, fixed texts kept as tokens
project_context == <<"project_context">>
section_header == <<NL, "File Documentation:", NL, "-------------------">>

\* the condition of line 107: Python truthiness of an Optional[str]
Truthy(x) == x # None /\ x # <<>>

\* f"\nCreated with {doc.created_with} ({doc.created_date})"
CreatedLine(doc) ==
    <<NL>> \o CreatedWithLit \o doc.created_with \o <<" ", "(">>
           \o doc.created_date \o <<")">>

\* the entries format_output appends to its output list for one doc
DocItems(doc) ==
    << <<NL>> \o doc.path, Dashes(Len(doc.path)), doc.description >>
    \o (IF Truthy(doc.created_with) /\ Truthy(doc.created_date)
        THEN << CreatedLine(doc) >> ELSE << >>)
    \o << <<NL>> >>

RECURSIVE AllDocItems(_)
\* the for loop of format_output, in list order
AllDocItems(ds) ==
    IF ds = <<>> THEN <<>> ELSE DocItems(Head(ds)) \o AllDocItems(Tail(ds))

\* DocGatherer.format_output(docs)
format_output(ds) ==
    Join(<<NL>>, <<project_context, section_header>> \o AllDocItems(ds))

\* the end of gather_docs and the rest of main: the for loop is exhausted,
\* main formats and prints the report, then copies it to the clipboard;
\* pyperclip.copy may fail, which main reports without failing
Report ==
    /\ pc = "gather"
    /\ idx > Len(walk)
    /\ output' = format_output(docs)
    /\ \E copied \in BOOLEAN :
          printed' = printed
              \o << [kind |-> "report", path |-> <<>>, text |-> output'] >>
              \o (IF copied
                  THEN << [kind |-> "copied", path |-> <<>>, text |-> <<>>] >>
                  ELSE << [kind |-> "not copied", path |-> <<>>, text |-> <<>>],
                          [kind |-> "copy manually", path |-> <<>>, text |-> <<>>] >>)
    /\ pc' = "done"
    /\ UNCHANGED <<walk, idx, docs>>
    /\ UNCHANGED bootVars

NextDoc == GatherVisit \/ Report

----------------------------------------------------------------------------
(* The inputs of the documentation gatherer.                                *)

\* sequences of at most n elements of P
SeqsUpTo(P, n) == UNION { [1..k -> P] : k \in 0..n }

\* file contents built of comment delimiters and text
DelimPieces ==
    { <<DQ, DQ, DQ>>, <<"/", "*", "*">>, <<"*", "/">>, <<"<", "#">>,
      <<"#", ">">>, <<SQ, SQ, SQ>>, <<"a">> }

DelimContents == { Concat(ps) : ps \in SeqsUpTo(DelimPieces, MaxDelimPieces) }

\* a triple-double-quote block around a description built of the parts of a
\* creation annotation, text, blanks and line breaks
AnnotPieces == { CreatedWithLit, <<"(">>, <<")">>, <<"a">>, <<" ">>, <<NL>> }

AnnotContents ==
    { <<DQ, DQ, DQ>> \o Concat(ps) \o <<DQ, DQ, DQ>> :
        ps \in SeqsUpTo(AnnotPieces, MaxAnnotPieces) }

APy == <<"a", ".", "p", "y">>

\* a readable regular file
RegularFile(path, content) ==
    [path |-> path, kind |-> "file", stat |-> "ok", read |-> "ok",
     content |-> content]

\* no bootstrap script is run
BootIdle ==
    /\ script = "none"
    /\ system = "linux"
    /\ uvOnPath = FALSE
    /\ uvWorks = FALSE
    /\ venvExists = FALSE
    /\ activateExists = FALSE
    /\ reqExists = FALSE
    /\ ipc = "idle"
    /\ bpc = "idle"
    /\ initLog = <<>>
    /\ pbLog = <<>>
    /\ initExit = -1
    /\ pbExit = -1
    /\ ran = <<>>
    /\ steps = <<>>
    /\ run = 1
    /\ prevExit = -1
    /\ prevRan = <<>>

\* one file a.py under the root, of any content of the two families
InitExtract ==
    /\ \E c \in DelimContents \cup AnnotContents : walk = << RegularFile(APy, c) >>
    /\ idx = 1
    /\ docs = <<>>
    /\ printed = <<>>
    /\ output = None
    /\ pc = "gather"
    /\ BootIdle

SpecExtract == InitExtract /\ [][NextDoc]_vars

\* the paths of a scanned tree, relative to the root
SBSh == <<"s", "/", "b", ".", "s", "h">>
CPs1 == <<"c", ".", "p", "s", "1">>
NMd == <<"n", ".", "m", "d">>
TreePaths == { APy, SBSh, CPs1, NMd }

DocContent == <<DQ, DQ, DQ, "a", DQ, DQ, DQ>>
PlainContent == <<"a">>

\* what an entry of the tree can be, whatever its name: a directory, a
\* readable file with or without a comment block, a file that cannot be read,
\* a file that cannot be decoded, an entry that is gone when it is inspected,
\* an entry whose inspection is denied
EntryKinds ==
    { [kind |-> "dir", stat |-> "ok", read |-> "denied", content |-> <<>>],
      [kind |-> "file", stat |-> "ok", read |-> "ok", content |-> DocContent],
      [kind |-> "file", stat |-> "ok", read |-> "ok", content |-> PlainContent],
      [kind |-> "file", stat |-> "ok", read |-> "denied", content |-> DocContent],
      [kind |-> "file", stat |-> "ok", read |-> "undecodable", content |-> <<>>],
      [kind |-> "file", stat |-> "gone", read |-> "denied", content |-> <<>>],
      [kind |-> "file", stat |-> "denied", read |-> "denied", content |-> DocContent] }

Entry(path, k) ==
    [path |-> path, kind |-> k.kind, stat |-> k.stat, read |-> k.read,
     content |-> k.content]

\* the walks over a tree: at most MaxFiles entries of distinct paths, in any
\* order (rglob yields in the order of the file system's enumeration)
Walks ==
    { w \in SeqsUpTo({ Entry(p, k) : p \in TreePaths, k \in EntryKinds }, MaxFiles) :
        \A i, j \in 1..Len(w) : i # j => w[i].path # w[j].path }

InitGather ==
    /\ walk \in Walks
    /\ idx = 1
    /\ docs = <<>>
    /\ printed = <<>>
    /\ output = None
    /\ pc = "gather"
    /\ BootIdle

SpecGather == InitGather /\ [][NextDoc]_vars

----------------------------------------------------------------------------
(* init.py and python_bootstrap.py                                          *)

Log(level, msg) == [level |-> level, msg |-> msg]

Cmd(proc, cmd, rc) == [proc |-> proc, cmd |-> cmd, rc |-> rc]

\* the exit statuses an external command can return
ExitStatuses == {0, 1}

\* subprocess.run without check=True: a non-zero exit status raises nothing
UncheckedFails(rc) == FALSE

\* subprocess.run(..., check=True) raises CalledProcessError for a non-zero
\* exit status
CheckedFails(rc) == rc # 0

\* init.get_platform(): "unix", "windows", or a RuntimeError ("raise")
get_platform(sys) ==
    IF sys \in {"darwin", "linux"} THEN "unix"
    ELSE IF sys = "windows" THEN "windows"
    ELSE "raise"

\* run_platform_script(), as main calls it. get_platform() is called outside
\* the try: its RuntimeError reaches main's except Exception. Inside the try,
\* a non-zero exit status and any other exception of subprocess.run (the
\* interpreter of the script is missing: "oserror") each log an error and
\* sys.exit(1); SystemExit passes main's except Exception.
RunPlatformScript ==
    /\ ipc = "platform"
    /\ steps' = Append(steps, "run_platform_script")
    /\ IF get_platform(system) = "raise"
       THEN /\ initLog' = Append(initLog, Log("error", "Setup failed: Unsupported platform"))
            /\ ipc' = "exited"
            /\ initExit' = 1
            /\ ran' = ran
       ELSE \E started \in BOOLEAN, outcome \in ExitStatuses :
              LET running == << Log("info", "Detected platform"),
                                Log("info", IF get_platform(system) = "unix"
                                            THEN "Running Unix setup script"
                                            ELSE "Running Windows setup script") >>
              IN IF ~started
                 THEN /\ outcome = 0
                      /\ initLog' = initLog \o running
                                      \o << Log("error", "Unexpected error") >>
                      /\ ipc' = "exited"
                      /\ initExit' = 1
                      /\ ran' = ran
                 ELSE /\ ran' = Append(ran, Cmd("init", "platform script", outcome))
                      /\ IF CheckedFails(outcome)
                         THEN /\ initLog' = initLog \o running
                                   \o << Log("error", "Setup failed with error code") >>
                              /\ ipc' = "exited"
                              /\ initExit' = 1
                         ELSE /\ initLog' = initLog \o running
                                   \o << Log("info", "Setup completed successfully") >>
                              /\ ipc' = "bootstrap"
                              /\ initExit' = initExit
    /\ UNCHANGED <<script, bpc, pbLog, pbExit, run, prevExit, prevRan>>
    /\ UNCHANGED envVars
    /\ UNCHANGED docVars

\* run_python_bootstrap() up to its subprocess.run: python_bootstrap.py is
\* started as a child process
RunPythonBootstrap ==
    /\ ipc = "bootstrap"
    /\ steps' = Append(steps, "run_python_bootstrap")
    /\ initLog' = Append(initLog, Log("info", "Setting up Python environment..."))
    /\ ipc' = "wait"
    /\ bpc' = "ensure"
    /\ pbLog' = <<>>
    /\ pbExit' = -1
    /\ UNCHANGED <<script, initExit, ran, run, prevExit, prevRan>>
    /\ UNCHANGED envVars
    /\ UNCHANGED docVars

\* the child has exited: subprocess.run returns or raises CalledProcessError
\* in run_python_bootstrap, and main ends
BootstrapReturns ==
    /\ ipc = "wait"
    /\ bpc = "exited"
    /\ ran' = Append(ran, Cmd("init", "python_bootstrap.py", pbExit))
    /\ IF CheckedFails(pbExit)
       THEN /\ initLog' = Append(initLog,
                              Log("error", "Python bootstrap failed with error code"))
            /\ initExit' = 1
       ELSE /\ initLog' = Append(initLog, Log("info", "Setup completed successfully!"))
            /\ initExit' = 0
    /\ ipc' = "exited"
    /\ UNCHANGED <<script, bpc, pbLog, pbExit, steps, run, prevExit, prevRan>>
    /\ UNCHANGED envVars
    /\ UNCHANGED docVars

\* check_uv_installation(): uv is found and "uv --version" exits with 0
check_uv_installation(onPath, works) == onPath /\ works

\* the command check_uv_installation runs: "uv --version", when uv is found
VersionProbe(onPath, works) ==
    IF onPath
    THEN << Cmd("python_bootstrap", "uv --version", IF works THEN 0 ELSE 1) >>
    ELSE << >>

\* what check_uv_installation logs
VersionProbeLog(onPath, works) ==
    IF onPath
    THEN IF works THEN << Log("info", "Found uv") >>
         ELSE << Log("warning", "uv found but version check failed") >>
    ELSE << >>

\* get_uv_install_command() raises RuntimeError on any other platform
uv_install_supported(sys) == sys \in {"linux", "darwin", "windows"}

\* ensure_uv_installed(), as main calls it. The installer runs only when
\* check_uv_installation() is false. get_uv_install_command() is called
\* outside the try, and the RuntimeError of a failed verification is not a
\* CalledProcessError: both reach main's except Exception. A successful
\* installer leaves uv found or not, working or not.
EnsureUvInstalled ==
    /\ bpc = "ensure"
    /\ steps' = Append(steps, "ensure_uv_installed")
    /\ LET probe == VersionProbe(uvOnPath, uvWorks)
           probeLog == VersionProbeLog(uvOnPath, uvWorks)
       IN IF check_uv_installation(uvOnPath, uvWorks)
          THEN /\ ran' = ran \o probe
               /\ pbLog' = pbLog \o probeLog
                     \o << Log("info", "uv is already installed and working") >>
               /\ bpc' = "venv"
               /\ UNCHANGED <<uvOnPath, uvWorks, pbExit>>
          ELSE IF ~uv_install_supported(system)
          THEN /\ ran' = ran \o probe
               /\ pbLog' = pbLog \o probeLog
                     \o << Log("info", "Installing uv..."),
                           Log("error", "Setup failed: Unsupported platform") >>
               /\ bpc' = "exited"
               /\ pbExit' = 1
               /\ UNCHANGED <<uvOnPath, uvWorks>>
          ELSE \E rc \in ExitStatuses, onPath2 \in BOOLEAN, works2 \in BOOLEAN :
                 IF CheckedFails(rc)
                 THEN /\ onPath2 = uvOnPath
                      /\ works2 = uvWorks
                      /\ ran' = ran \o probe
                            \o << Cmd("python_bootstrap", "uv installer", rc) >>
                      /\ pbLog' = pbLog \o probeLog
                            \o << Log("info", "Installing uv..."),
                                  Log("error", "Failed to install uv") >>
                      /\ bpc' = "exited"
                      /\ pbExit' = 1
                      /\ UNCHANGED <<uvOnPath, uvWorks>>
                 ELSE /\ uvOnPath' = onPath2
                      /\ uvWorks' = works2
                      /\ ran' = ran \o probe
                            \o << Cmd("python_bootstrap", "uv installer", rc) >>
                            \o VersionProbe(onPath2, works2)
                      /\ IF check_uv_installation(onPath2, works2)
                         THEN /\ pbLog' = pbLog \o probeLog
                                    \o << Log("info", "Installing uv...") >>
                                    \o VersionProbeLog(onPath2, works2)
                                    \o << Log("info", "uv installed successfully") >>
                              /\ bpc' = "venv"
                              /\ pbExit' = pbExit
                         ELSE /\ pbLog' = pbLog \o probeLog
                                    \o << Log("info", "Installing uv...") >>
                                    \o VersionProbeLog(onPath2, works2)
                                    \o << Log("error", "Setup failed: verification failed") >>
                              /\ bpc' = "exited"
                              /\ pbExit' = 1
    /\ UNCHANGED <<script, system, venvExists, activateExists, reqExists,
                   ipc, initLog, initExit, run, prevExit, prevRan>>
    /\ UNCHANGED docVars

\* "uv venv" is run whatever is on disk
venv_missing_always == TRUE

\* not venv_path.exists()
venv_missing == ~venvExists

\* setup_venv(repo_root), as main calls it: "uv venv monorepo" runs only when
\* the directory does not exist; its CalledProcessError reaches main's
\* except Exception
SetupVenv ==
    /\ bpc = "venv"
    /\ steps' = Append(steps, "setup_venv")
    /\ IF venv_missing
       THEN \E rc \in ExitStatuses :
              /\ ran' = Append(ran, Cmd("python_bootstrap", "uv venv", rc))
              /\ IF CheckedFails(rc)
                 THEN /\ pbLog' = pbLog
                            \o << Log("info", "Creating virtual environment..."),
                                  Log("error", "Setup failed: uv venv") >>
                      /\ bpc' = "exited"
                      /\ pbExit' = 1
                      /\ UNCHANGED <<venvExists, activateExists>>
                 ELSE /\ pbLog' = Append(pbLog,
                                     Log("info", "Creating virtual environment..."))
                      /\ venvExists' = TRUE
                      /\ activateExists' = TRUE
                      /\ bpc' = "activate"
                      /\ pbExit' = pbExit
       ELSE /\ pbLog' = Append(pbLog, Log("info", "Virtual environment already exists"))
            /\ bpc' = "activate"
            /\ UNCHANGED <<ran, pbExit, venvExists, activateExists>>
    /\ UNCHANGED <<script, system, uvOnPath, uvWorks, reqExists,
                   ipc, initLog, initExit, run, prevExit, prevRan>>
    /\ UNCHANGED docVars

\* activate_venv(venv_path): sys.exit(1) when the activation script is
\* missing, else the environment variables of the process are changed
ActivateVenv ==
    /\ bpc = "activate"
    /\ steps' = Append(steps, "activate_venv")
    /\ IF ~activateExists
       THEN /\ pbLog' = Append(pbLog, Log("error", "Activation script not found"))
            /\ bpc' = "exited"
            /\ pbExit' = 1
       ELSE /\ pbLog' = Append(pbLog, Log("info", "Activated virtual environment"))
            /\ bpc' = "deps"
            /\ pbExit' = pbExit
    /\ UNCHANGED <<script, ipc, initLog, initExit, ran, run, prevExit, prevRan>>
    /\ UNCHANGED envVars
    /\ UNCHANGED docVars

\* install_dependencies(repo_root) and the end of main: sys.exit(1) when
\* requirements.txt is missing; the CalledProcessError of "uv pip install"
\* reaches main's except Exception; else main logs and returns
InstallDependencies ==
    /\ bpc = "deps"
    /\ steps' = Append(steps, "install_dependencies")
    /\ IF ~reqExists
       THEN /\ pbLog' = Append(pbLog, Log("error", "requirements.txt not found"))
            /\ pbExit' = 1
            /\ ran' = ran
       ELSE \E rc \in ExitStatuses :
              /\ ran' = Append(ran, Cmd("python_bootstrap", "uv pip install", rc))
              /\ IF CheckedFails(rc)
                 THEN /\ pbLog' = pbLog
                            \o << Log("info", "Installing dependencies with uv..."),
                                  Log("error", "Setup failed: uv pip install") >>
                      /\ pbExit' = 1
                 ELSE /\ pbLog' = pbLog
                            \o << Log("info", "Installing dependencies with uv..."),
                                  Log("info", "Python environment setup complete!"),
                                  Log("info", "To activate this environment") >>
                      /\ pbExit' = 0
    /\ bpc' = "exited"
    /\ UNCHANGED <<script, ipc, initLog, initExit, run, prevExit, prevRan>>
    /\ UNCHANGED envVars
    /\ UNCHANGED docVars

\* the script the user runs has exited
Finished ==
    \/ script = "init" /\ ipc = "exited"
    \/ script = "python_bootstrap" /\ bpc = "exited"

\* exit status of the script the user runs
ExitStatus == IF script = "init" THEN initExit ELSE pbExit

\* the user runs the same script again, on the machine as the run before
\* left it
RunAgain ==
    /\ Finished
    /\ run < MaxRuns
    /\ run' = run + 1
    /\ prevExit' = ExitStatus
    /\ prevRan' = ran
    /\ ipc' = IF script = "init" THEN "platform" ELSE "idle"
    /\ bpc' = IF script = "init" THEN "idle" ELSE "ensure"
    /\ initLog' = <<>>
    /\ pbLog' = <<>>
    /\ initExit' = -1
    /\ pbExit' = -1
    /\ ran' = <<>>
    /\ steps' = <<>>
    /\ UNCHANGED script
    /\ UNCHANGED envVars
    /\ UNCHANGED docVars

NextBoot ==
    \/ RunPlatformScript
    \/ RunPythonBootstrap
    \/ BootstrapReturns
    \/ EnsureUvInstalled
    \/ SetupVenv
    \/ ActivateVenv
    \/ InstallDependencies
    \/ RunAgain

\* the documentation gatherer is not run
DocIdle ==
    /\ walk = <<>>
    /\ idx = 1
    /\ docs = <<>>
    /\ printed = <<>>
    /\ output = None
    /\ pc = "idle"

\* the first run of either script, on any platform and any state of the
\* machine: uv found or not, working or not; the venv directory there or
\* not, with its activation script or not; requirements.txt there or not
InitBoot ==
    /\ script \in {"init", "python_bootstrap"}
    /\ system \in {"linux", "darwin", "windows", "freebsd"}
    /\ uvOnPath \in BOOLEAN
    /\ uvWorks \in BOOLEAN
    /\ uvWorks => uvOnPath
    /\ venvExists \in BOOLEAN
    /\ activateExists \in BOOLEAN
    /\ activateExists => venvExists
    /\ reqExists \in BOOLEAN
    /\ ipc = IF script = "init" THEN "platform" ELSE "idle"
    /\ bpc = IF script = "init" THEN "idle" ELSE "ensure"
    /\ initLog = <<>>
    /\ pbLog = <<>>
    /\ initExit = -1
    /\ pbExit = -1
    /\ ran = <<>>
    /\ steps = <<>>
    /\ run = 1
    /\ prevExit = -1
    /\ prevRan = <<>>
    /\ DocIdle

SpecBoot == InitBoot /\ [][NextBoot]_vars

----------------------------------------------------------------------------
(* What the claims speak of, stated apart from the model of the code.       *)

\* the delimiters in the priority order the specification gives:
\* triple-double-quote, /** */, <# #>, triple-single-quote
PriorityOrder ==
    << [open |-> <<DQ, DQ, DQ>>,    close |-> <<DQ, DQ, DQ>>],
       [open |-> <<"/", "*", "*">>, close |-> <<"*", "/">>],
       [open |-> <<"<", "#">>,      close |-> <<"#", ">">>],
       [open |-> <<SQ, SQ, SQ>>,    close |-> <<SQ, SQ, SQ>>] >>

\* a comment block of delimiters d in text c: opened at o, closed at e
Occurs(c, d, o, e) ==
    /\ IsAt(c, d.open, o)
    /\ IsAt(c, d.close, e)
    /\ e >= o + Len(d.open)

\* a block of delimiters d opens at o in c
OpensAt(c, d, o) ==
    /\ IsAt(c, d.open, o)
    /\ \E e \in (o + Len(d.open))..Len(c) : Occurs(c, d, o, e)

Matches(c, d) == \E o \in 1..Len(c) : OpensAt(c, d, o)

MatchingPatterns(c) == { n \in 1..Len(PriorityOrder) : Matches(c, PriorityOrder[n]) }

Min(S) == CHOOSE x \in S : \A y \in S : x <= y

\* where the first occurrence of a block of delimiters d opens in c
FirstOpen(c, d) == Min({ o \in 1..Len(c) : OpensAt(c, d, o) })

\* the text of the first occurrence of a block of delimiters d in c, trimmed
FirstOccurrenceText(c, d) ==
    LET o == FirstOpen(c, d)
        e == Min({ x \in (o + Len(d.open))..Len(c) : Occurs(c, d, o, x) })
    IN Strip(SubSeq(c, o + Len(d.open), e - 1))

\* the one file of a scan of SpecExtract has been visited
Extracted == Len(walk) = 1 /\ idx = 2

\* C1: when the content of a file matches two or more of the four delimiter
\* patterns, the FileDoc is built from the first occurrence of the pattern
\* that comes first in the priority order, wherever the others stand in the text
C1_PriorityOrder ==
    (Extracted /\ Cardinality(MatchingPatterns(walk[1].content)) >= 2)
    => /\ Len(docs) = 1
       /\ docs[1].description =
              FirstOccurrenceText(walk[1].content,
                  PriorityOrder[Min(MatchingPatterns(walk[1].content))])

\* a file in which a pattern of lower priority opens before the winning one,
\* and whose FileDoc has been built
C1_Witness ==
    /\ Extracted
    /\ Len(docs) = 1
    /\ LET c == walk[1].content
           m == MatchingPatterns(c)
       IN /\ Cardinality(m) >= 2
          /\ \E n \in m : FirstOpen(c, PriorityOrder[n])
                            < FirstOpen(c, PriorityOrder[Min(m)])

\* s holds "Created with ", then a "(", then a ")"
HasAnnotation(s) ==
    \E o \in 1..Len(s) :
        /\ IsAt(s, CreatedWithLit, o)
        /\ \E j \in (o + Len(CreatedWithLit))..Len(s) :
              /\ s[j] = "("
              /\ \E k \in (j + 1)..Len(s) : s[k] = ")"

\* s holds "Created with ", then a "(", then a ")", all on one line
HasAnnotationOnOneLine(s) ==
    \E o \in 1..Len(s) :
        /\ IsAt(s, CreatedWithLit, o)
        /\ \E j \in (o + Len(CreatedWithLit))..Len(s) :
              /\ s[j] = "("
              /\ \E k \in (j + 1)..Len(s) :
                    /\ s[k] = ")"
                    /\ \A x \in o..k : s[x] # NL

BothOrNeither(d) == (d.created_with = None) <=> (d.created_date = None)

\* C5, as claimed: every FileDoc has created_with and created_date both set or
\* both None, and they are set exactly when the description holds an
\* annotation "Created with <agent>(<date>)", agent and date being any text
C5_AnyText ==
    \A i \in 1..Len(docs) :
        /\ BothOrNeither(docs[i])
        /\ (docs[i].created_with # None) <=> HasAnnotation(docs[i].description)

\* C5, amended: every FileDoc has created_with and created_date both set or
\* both None, and they are set exactly when the description holds an
\* annotation "Created with <agent>(<date>)" that stands on one line
C5_OneLine ==
    \A i \in 1..Len(docs) :
        /\ BothOrNeither(docs[i])
        /\ (docs[i].created_with # None)
               <=> HasAnnotationOnOneLine(docs[i].description)

\* a FileDoc with both fields set, the date empty, from a description of
\* several lines
C5_Witness ==
    /\ Len(docs) = 1
    /\ docs[1].created_with # None
    /\ docs[1].created_date = <<>>
    /\ \E x \in 1..Len(docs[1].description) : docs[1].description[x] = NL

\* the entries of a record's block as claimed: the trailing line is there
\* exactly when both fields are set
ClaimedDocItems(doc) ==
    << <<NL>> \o doc.path, Dashes(Len(doc.path)), doc.description >>
    \o (IF doc.created_with # None /\ doc.created_date # None
        THEN << CreatedLine(doc) >> ELSE << >>)
    \o << <<NL>> >>

RECURSIVE ClaimedItems(_)
ClaimedItems(ds) ==
    IF ds = <<>> THEN <<>> ELSE ClaimedDocItems(Head(ds)) \o ClaimedItems(Tail(ds))

\* C6: in the report, a record's block ends with a "Created with X (Y)" line
\* if and only if the record's created_with and created_date are set, also
\* when the agent or the date found is empty
C6_TrailerIffSet ==
    pc = "done" =>
        output = Join(<<NL>>, <<project_context, section_header>> \o ClaimedItems(docs))

\* the entries gather_docs is to pass to the extractor: regular files that
\* can be inspected, with one of the three extensions
IsCandidate(e) ==
    /\ e.kind = "file"
    /\ e.stat = "ok"
    /\ suffix(e.path) \in DocSuffixes

\* a candidate file that cannot be read or decoded
Unreadable(e) == IsCandidate(e) /\ e.read # "ok"

\* a candidate file that can be read and holds a recognized comment block
Documented(e) ==
    /\ IsCandidate(e)
    /\ e.read = "ok"
    /\ MatchingPatterns(e.content) # {}

RECURSIVE PathsOf(_)
PathsOf(es) == IF es = <<>> THEN <<>> ELSE <<Head(es).path>> \o PathsOf(Tail(es))

IsError(m) == m.kind = "error"

\* the entries the for loop of gather_docs has gone past
Visited == SubSeq(walk, 1, idx - 1)

\* C2: whatever candidate files cannot be read or decoded, gather_docs is not
\* ended by them; a message is printed for each of them, they and only they
\* are left out, and every other candidate file with a recognized comment
\* block has its FileDoc, all along the scan and at its end
C2_UnreadableSkipped ==
    /\ pc = "crashed" => walk[idx].stat = "denied"
    /\ PathsOf(SelectSeq(printed, IsError)) = PathsOf(SelectSeq(Visited, Unreadable))
    /\ PathsOf(docs) = PathsOf(SelectSeq(Visited, Documented))
    /\ pc = "done" => idx = Len(walk) + 1

\* a finished scan that met an unreadable candidate file before a documented
\* one, and reports the documented one
C2_Witness ==
    /\ pc = "done"
    /\ \E i, j \in 1..Len(walk) :
          /\ i < j
          /\ Unreadable(walk[i])
          /\ Documented(walk[j])
          /\ \E n \in 1..Len(docs) : docs[n].path = walk[j].path
    /\ \E n \in 1..Len(printed) : IsError(printed[n])

\* C3: an error raised while one entry is inspected does not end gather_docs:
\* the entry is skipped, and the scan goes on to every other entry
C3_EntryErrorSkipped ==
    /\ pc # "crashed"
    /\ pc = "done" => idx = Len(walk) + 1

\* the start of a record's block in the report: the path, its underline of
\* dashes and the description
BlockHead(doc) ==
    <<NL, NL>> \o doc.path \o <<NL>> \o Dashes(Len(doc.path)) \o <<NL>>
               \o doc.description \o <<NL>>

\* C4: the records of the report stand in the order in which the walker
\* yielded their files: gather_docs keeps that order, dropping or doubling
\* no matched file, and in the text of the report the block of each record
\* ends before the block of the next begins
C4_WalkOrder ==
    pc = "done" =>
        /\ PathsOf(docs) = PathsOf(SelectSeq(walk, Documented))
        /\ \A i \in 1..Len(docs) : FindFrom(output, BlockHead(docs[i]), 1) # 0
        /\ \A i, j \in 1..Len(docs) :
              i < j => FindFrom(output, BlockHead(docs[i]), 1)
                           + Len(BlockHead(docs[i])) - 1
                       <= FindFrom(output, BlockHead(docs[j]), 1)

\* a report of two records or more whose files were not next to each other
\* in the walk
C4_Witness ==
    /\ pc = "done"
    /\ Len(docs) >= 2
    /\ \E i \in 1..Len(walk) : i > 1 /\ i < Len(walk) /\ ~Documented(walk[i])
    /\ Documented(walk[1])

\* the platforms the bootstrap scripts support
Supported == system \in {"linux", "darwin", "windows"}

\* the external commands that set something up; "uv --version" only looks
SetupCmds ==
    { "platform script", "python_bootstrap.py", "uv installer", "uv venv",
      "uv pip install" }

\* the process that ran a command has ended with a non-zero exit status
EndedInFailure(proc) ==
    IF proc = "init" THEN ipc = "exited" /\ initExit # 0
    ELSE bpc = "exited" /\ pbExit # 0

\* the command at place k of ran stopped the setup sequence of its process:
\* the process ran nothing after it and ended with a non-zero exit status;
\* after a failed platform script nothing at all was run, and
\* run_python_bootstrap was not entered; after a failed command of
\* python_bootstrap.py no further setup function was entered
HaltedAt(k) ==
    /\ \A m \in (k + 1)..Len(ran) : ran[m].proc # ran[k].proc
    /\ EndedInFailure(ran[k].proc)
    /\ ran[k].cmd = "platform script" =>
          /\ k = Len(ran)
          /\ steps[Len(steps)] = "run_platform_script"
    /\ ran[k].cmd = "uv installer" => steps[Len(steps)] = "ensure_uv_installed"
    /\ ran[k].cmd = "uv venv" => steps[Len(steps)] = "setup_venv"
    /\ ran[k].cmd = "uv pip install" => steps[Len(steps)] = "install_dependencies"

\* C7, as claimed: when any external command of the setup sequence returns a
\* non-zero exit status, no later setup step is attempted and the process
\* ends with a non-zero status
C7_AnyCommand ==
    \A k \in 1..Len(ran) : ran[k].rc # 0 => HaltedAt(k)

\* C7, amended: when any external command of the setup sequence other than
\* the "uv --version" check of check_uv_installation returns a non-zero exit
\* status, no later setup step is attempted and the process ends with a
\* non-zero status: a failed platform script means run_python_bootstrap is
\* never entered, and a failed installer, "uv venv" or "uv pip install" means
\* none of the steps after it is entered
C7_SetupCommand ==
    \A k \in 1..Len(ran) :
        (ran[k].rc # 0 /\ ran[k].cmd \in SetupCmds) => HaltedAt(k)

\* init.py has ended in failure because "uv venv" failed in its child
C7_Witness ==
    /\ script = "init"
    /\ ipc = "exited"
    /\ initExit = 1
    /\ \E k \in 1..Len(ran) : ran[k].cmd = "uv venv" /\ ran[k].rc = 1
    /\ steps[Len(steps)] = "setup_venv"

IsErrorLog(m) == m.level = "error"

\* the log of the script the user runs
ScriptLog == IF script = "init" THEN initLog ELSE pbLog

\* C8: on a platform that is neither unix-like nor windows, each bootstrap
\* script runs no setup command and activates no environment, and ends with a
\* logged error and a non-zero exit status, whatever the state of the
\* machine, also when uv is installed already
C8_UnsupportedPlatform ==
    (script # "none" /\ ~Supported) =>
        /\ \A k \in 1..Len(ran) : ran[k].cmd \notin SetupCmds
        /\ \A k \in 1..Len(steps) : steps[k] # "activate_venv"
        /\ Finished => /\ ExitStatus # 0
                       /\ SelectSeq(ScriptLog, IsErrorLog) # <<>>

IsSuccessLog(m) == m = Log("info", "Setup completed successfully")

\* C9: a run of init.py that ends in failure has logged no "Setup completed
\* successfully"; that message is logged only when the platform script and
\* the Python bootstrap both succeeded; every failing exit has an error
\* logged before it
C9_NoSuccessOnFailure ==
    (script = "init" /\ ipc = "exited") =>
        /\ initExit # 0 => SelectSeq(initLog, IsSuccessLog) = <<>>
        /\ SelectSeq(initLog, IsSuccessLog) # <<>> =>
              /\ \E k \in 1..Len(ran) : ran[k] = Cmd("init", "platform script", 0)
              /\ \E k \in 1..Len(ran) : ran[k] = Cmd("init", "python_bootstrap.py", 0)
        /\ initExit # 0 => SelectSeq(initLog, IsErrorLog) # <<>>

IsInstaller(c) == c.cmd = "uv installer"
IsVenvCreation(c) == c.cmd = "uv venv"

\* C10: the installer is run only when check_uv_installation is false, and
\* "uv venv" only when the venv directory does not exist; so a run of
\* python_bootstrap.main that follows a run that succeeded runs neither
C10_Idempotent ==
    /\ [][ /\ Len(SelectSeq(ran', IsInstaller)) > Len(SelectSeq(ran, IsInstaller))
              => ~check_uv_installation(uvOnPath, uvWorks)
           /\ Len(SelectSeq(ran', IsVenvCreation)) > Len(SelectSeq(ran, IsVenvCreation))
              => ~venvExists ]_vars
    /\ []( (run >= 2 /\ prevExit = 0) =>
              /\ SelectSeq(ran, IsInstaller) = <<>>
              /\ SelectSeq(ran, IsVenvCreation) = <<>> )

\* a second run of python_bootstrap.py that went through all its steps,
\* after a first run that installed uv, created the venv, and succeeded
C10_Witness ==
    /\ script = "python_bootstrap"
    /\ run = 2
    /\ prevExit = 0
    /\ SelectSeq(prevRan, IsInstaller) # <<>>
    /\ SelectSeq(prevRan, IsVenvCreation) # <<>>
    /\ bpc = "exited"
    /\ pbExit = 0
    /\ steps = << "ensure_uv_installed", "setup_venv", "activate_venv",
                  "install_dependencies" >>

====
